---- MODULE Spec2Model ----
(***************************************************************************)
(* granola-cli: the document-to-Markdown converter                         *)
(* (src/utils/convertJsonNodes.ts) and the access-token lookup             *)
(* (src/api/getAccessToken.ts).                                            *)
(*                                                                         *)
(* JavaScript strings are TLA+ strings (Len, Head, Tail, SubSeq and \o     *)
(* work on them character by character).  Every other JavaScript value is  *)
(* a record of one fixed shape, so that any two values can be compared.    *)
(***************************************************************************)
EXTENDS Integers, Sequences, FiniteSets, TLC

VARIABLES status, entry, input, inctx, stack, attIdx, pieces, result, thrown, ret

\* getAccessToken: its position, the candidate paths, the loop over them, the
\* retry loop of readFileWithRetry with the error it caught last, and what
\* it returns or throws
VARIABLES tpc, envPath, possiblePaths, pidx, attempt, delays, readError, fileContent,
          lastError, failures, accessToken, finalError

rvars == <<status, entry, input, inctx, stack, attIdx, pieces, result, thrown, ret>>

tvars == <<tpc, envPath, possiblePaths, pidx, attempt, delays, readError, fileContent,
           lastError, failures, accessToken, finalError>>

vars == <<rvars, tvars>>

(***************************************************************************)
(* Bounds of the model.                                                    *)
(***************************************************************************)
MaxItems == 3
MaxNest == 2
MaxLevel == 2
MaxCtxDepth == 1
MaxAttachments == 2

(***************************************************************************)
(* JavaScript values.                                                      *)
(***************************************************************************)
JV(kind, str, num, ks, vs) == [k |-> kind, s |-> str, n |-> num, keys |-> ks, items |-> vs]

Undefined == JV("undefined", "", 0, <<>>, <<>>)

Null == JV("null", "", 0, <<>>, <<>>)

Str(x) == JV("string", x, 0, <<>>, <<>>)

Num(x) == JV("number", "", x, <<>>, <<>>)

Arr(vs) == JV("array", "", 0, <<>>, vs)

Obj(ks, vs) == JV("object", "", 0, ks, vs)

\* !v is false: JavaScript truthiness
Truthy(v) ==
  CASE v.k = "undefined" -> FALSE
    [] v.k = "null" -> FALSE
    [] v.k = "string" -> v.s # ""
    [] v.k = "number" -> v.n # 0
    [] OTHER -> TRUE

\* v.key where v is not null or undefined; an object's later member wins
Prop(v, key) ==
  IF v.k = "object" /\ \E i \in 1..Len(v.keys) : v.keys[i] = key
  THEN v.items[CHOOSE i \in 1..Len(v.keys) :
                  /\ v.keys[i] = key
                  /\ \A j \in (i+1)..Len(v.keys) : v.keys[j] # key]
  ELSE Undefined

\* v === "lit"
IsStr(v, lit) == v.k = "string" /\ v.s = lit

RECURSIVE Repeat(_, _)
\* str.repeat(n)
Repeat(str, n) == IF n <= 0 THEN "" ELSE str \o Repeat(str, n - 1)

RECURSIVE Join(_, _)
\* parts.join(sep)
Join(parts, sep) ==
  IF Len(parts) = 0 THEN ""
  ELSE IF Len(parts) = 1 THEN parts[1]
  ELSE parts[1] \o sep \o Join(Tail(parts), sep)

(***************************************************************************)
(* convertNodeToMarkdown, one call frame at a time.                        *)
(***************************************************************************)
\* the default parameter value { depth: 0 }
DefaultCtx == Obj(<<"depth">>, <<Num(0)>>)

ListItemCtx(depth, listType, i) ==
  Obj(<<"depth", "listType", "itemIndex">>, <<Num(depth), Str(listType), Num(i)>>)

NestedListCtx(depth, listType) ==
  Obj(<<"depth", "listType">>, <<Num(depth), Str(listType)>>)

NodeType(node) == Prop(node, "type")

IsList(node) == IsStr(NodeType(node), "bulletList") \/ IsStr(NodeType(node), "orderedList")

Recursing == {"doc", "paragraph", "heading", "bulletList", "orderedList", "listItem"}

\* a converter that walks into the content of any node
Children_any(node) ==
  IF Truthy(node) /\ Prop(node, "content").k = "array"
  THEN Prop(node, "content").items
  ELSE <<>>

\* the children a frame recurses into: node.content of the cases that map
\* or loop over it, nothing for a falsy node and for the other cases
Children(node) ==
  IF /\ Truthy(node)
     /\ NodeType(node).k = "string"
     /\ NodeType(node).s \in Recursing
     /\ Prop(node, "content").k = "array"
  THEN Prop(node, "content").items
  ELSE <<>>

\* a list item that hands its own depth to a nested list
ChildCtx_flat(node, ctx, i) ==
  LET t == NodeType(node).s
      child == Children(node)[i + 1]
  IN CASE t = "bulletList" -> ListItemCtx(Prop(ctx, "depth").n, "bullet", i)
       [] t = "orderedList" -> ListItemCtx(Prop(ctx, "depth").n, "ordered", i)
       [] t = "listItem" ->
            IF IsList(child)
            THEN NestedListCtx(Prop(ctx, "depth").n,
                               IF IsStr(NodeType(child), "orderedList")
                               THEN "ordered" ELSE "bullet")
            ELSE ctx
       [] OTHER -> ctx

\* the context handed to the child at zero-based position i
ChildCtx(node, ctx, i) ==
  LET t == NodeType(node).s
      child == Children(node)[i + 1]
  IN CASE t = "bulletList" -> ListItemCtx(Prop(ctx, "depth").n, "bullet", i)
       [] t = "orderedList" -> ListItemCtx(Prop(ctx, "depth").n, "ordered", i)
       [] t = "listItem" ->
            IF IsList(child)
            THEN NestedListCtx(Prop(ctx, "depth").n + 1,
                               IF IsStr(NodeType(child), "orderedList")
                               THEN "ordered" ELSE "bullet")
            ELSE ctx
       [] OTHER -> ctx

indent(ctx) == Repeat("  ", Prop(ctx, "depth").n)

\* a paragraph that takes any nested depth for a list
InList_depth(ctx) == Prop(ctx, "depth").n > 0

\* if (ctx.listType): the paragraph is inline content of a list item
InList(ctx) == Truthy(Prop(ctx, "listType"))

\* ctx.depth === 0
AtTopLevel(ctx) == Prop(ctx, "depth") = Num(0)

\* numbering that starts at the zero-based index
prefix_zero(ctx) ==
  IF IsStr(Prop(ctx, "listType"), "ordered")
  THEN ToString(IF Truthy(Prop(ctx, "itemIndex")) THEN Prop(ctx, "itemIndex").n ELSE 0)
       \o ". "
  ELSE "- "

prefix(ctx) ==
  IF IsStr(Prop(ctx, "listType"), "ordered")
  THEN ToString((IF Truthy(Prop(ctx, "itemIndex")) THEN Prop(ctx, "itemIndex").n ELSE 0) + 1)
       \o ". "
  ELSE "- "

\* childContent of the listItem case: a nested list starts on its own line
childContent(node, outs) ==
  [j \in 1..Len(outs) |->
     IF IsList(Children(node)[j]) THEN "\n" \o outs[j] ELSE outs[j]]

\* what a frame returns once its children have returned outs
Finish(node, ctx, outs) ==
  IF ~Truthy(node) THEN ""
  ELSE
    LET t == NodeType(node)
        text == Join(outs, "")
    IN CASE IsStr(t, "doc") -> text
         [] IsStr(t, "paragraph") ->
              IF InList(ctx) THEN text ELSE text \o "\n\n"
         [] IsStr(t, "heading") ->
              LET lv == Prop(Prop(node, "attrs"), "level")
                  level == IF Truthy(lv) THEN lv.n ELSE 1
              IN Repeat("#", level) \o " " \o text \o "\n\n"
         [] IsStr(t, "bulletList") ->
              IF AtTopLevel(ctx) THEN text \o "\n" ELSE text
         [] IsStr(t, "orderedList") ->
              IF AtTopLevel(ctx) THEN text \o "\n" ELSE text
         [] IsStr(t, "listItem") ->
              indent(ctx) \o prefix(ctx) \o Join(childContent(node, outs), "") \o "\n"
         [] IsStr(t, "text") ->
              IF Truthy(Prop(node, "text")) THEN Prop(node, "text").s ELSE ""
         [] IsStr(t, "horizontalRule") -> "---\n\n"
         [] OTHER -> ""

RECURSIVE convertNodeToMarkdown(_, _)
\* the whole recursion of one call, run on its own
convertNodeToMarkdown(node, ctx) ==
  Finish(node, ctx,
         [j \in 1..Len(Children(node)) |->
            convertNodeToMarkdown(Children(node)[j], ChildCtx(node, ctx, j - 1))])

(***************************************************************************)
(* JSON.parse over the characters of a text: objects, arrays, strings with *)
(* the escapes \" \\ \/ \n, unsigned integers, null, true, false and       *)
(* blanks between tokens.  Anything else is a SyntaxError.                 *)
(***************************************************************************)
Bool(b) == JV("boolean", "", IF b THEN 1 ELSE 0, <<>>, <<>>)

Parsed(v, rest) == [ok |-> TRUE, val |-> v, rest |-> rest]

ParseFail == [ok |-> FALSE, val |-> Undefined, rest |-> ""]

Digits == <<"0", "1", "2", "3", "4", "5", "6", "7", "8", "9">>

IsDigit(c) == \E d \in 1..10 : Digits[d] = c

DigitVal(c) == (CHOOSE d \in 1..10 : Digits[d] = c) - 1

StartsWith(s, pre) == Len(s) >= Len(pre) /\ SubSeq(s, 1, Len(pre)) = pre

Drop(s, n) == SubSeq(s, n + 1, Len(s))

RECURSIVE SkipWs(_)
SkipWs(s) ==
  IF s # "" /\ Head(s) \in {" ", "\n"} THEN SkipWs(Tail(s)) ELSE s

RECURSIVE ParseChars(_, _)
\* the rest of a string literal, after its opening quote
ParseChars(s, acc) ==
  IF s = "" THEN ParseFail
  ELSE IF Head(s) = "\"" THEN Parsed(Str(acc), Tail(s))
  ELSE IF Head(s) = "\n" THEN ParseFail
  ELSE IF Head(s) = "\\" THEN
    IF Len(s) < 2 THEN ParseFail
    ELSE IF SubSeq(s, 2, 2) = "n" THEN ParseChars(Drop(s, 2), acc \o "\n")
    ELSE IF SubSeq(s, 2, 2) \in {"\"", "\\", "/"}
      THEN ParseChars(Drop(s, 2), acc \o SubSeq(s, 2, 2))
    ELSE ParseFail
  ELSE ParseChars(Tail(s), acc \o Head(s))

RECURSIVE ParseDigits(_, _)
ParseDigits(s, acc) ==
  IF s # "" /\ IsDigit(Head(s))
  THEN ParseDigits(Tail(s), 10 * acc + DigitVal(Head(s)))
  ELSE Parsed(Num(acc), s)

RECURSIVE ParseValue(_), ParseElements(_, _), ParseMembers(_, _, _)
ParseValue(s0) ==
  LET s == SkipWs(s0)
  IN IF s = "" THEN ParseFail
     ELSE IF Head(s) = "\"" THEN ParseChars(Tail(s), "")
     ELSE IF IsDigit(Head(s)) THEN
       IF Head(s) = "0" /\ Len(s) > 1 /\ IsDigit(SubSeq(s, 2, 2))
       THEN ParseFail ELSE ParseDigits(s, 0)
     ELSE IF StartsWith(s, "null") THEN Parsed(Null, Drop(s, 4))
     ELSE IF StartsWith(s, "true") THEN Parsed(Bool(TRUE), Drop(s, 4))
     ELSE IF StartsWith(s, "false") THEN Parsed(Bool(FALSE), Drop(s, 5))
     ELSE IF Head(s) = "[" THEN
       IF StartsWith(SkipWs(Tail(s)), "]")
       THEN Parsed(Arr(<<>>), Tail(SkipWs(Tail(s))))
       ELSE ParseElements(Tail(s), <<>>)
     ELSE IF Head(s) = "{" THEN
       IF StartsWith(SkipWs(Tail(s)), "}")
       THEN Parsed(Obj(<<>>, <<>>), Tail(SkipWs(Tail(s))))
       ELSE ParseMembers(Tail(s), <<>>, <<>>)
     ELSE ParseFail

\* the elements of an array up to its closing bracket
ParseElements(s, acc) ==
  LET e == ParseValue(s)
      r == SkipWs(e.rest)
  IN IF ~e.ok THEN ParseFail
     ELSE IF StartsWith(r, ",") THEN ParseElements(Tail(r), Append(acc, e.val))
     ELSE IF StartsWith(r, "]") THEN Parsed(Arr(Append(acc, e.val)), Tail(r))
     ELSE ParseFail

\* the members of an object up to its closing brace
ParseMembers(s0, ks, vs) ==
  LET s == SkipWs(s0)
      key == IF StartsWith(s, "\"") THEN ParseChars(Tail(s), "") ELSE ParseFail
      c == SkipWs(key.rest)
      e == IF key.ok /\ StartsWith(c, ":") THEN ParseValue(Tail(c)) ELSE ParseFail
      r == SkipWs(e.rest)
  IN IF ~e.ok THEN ParseFail
     ELSE IF StartsWith(r, ",")
       THEN ParseMembers(Tail(r), Append(ks, key.val.s), Append(vs, e.val))
     ELSE IF StartsWith(r, "}")
       THEN Parsed(Obj(Append(ks, key.val.s), Append(vs, e.val)), Tail(r))
     ELSE ParseFail

\* JSON.parse(text): ok is FALSE where JSON.parse throws a SyntaxError
JSONparse(text) ==
  LET r == ParseValue(text)
  IN IF r.ok /\ SkipWs(r.rest) = "" THEN r ELSE ParseFail

(***************************************************************************)
(* Input documents.                                                        *)
(***************************************************************************)
\* { type, content }
Node(type, content) == Obj(<<"type", "content">>, <<Str(type), Arr(content)>>)

\* { type }: no content, no text, no attrs
Leaf(type) == Obj(<<"type">>, <<Str(type)>>)

\* { type: "text", text }
TextNode(t) == Obj(<<"type", "text">>, <<Str("text"), Str(t)>>)

\* { type: "heading", attrs: { level }, content }
Heading(level, content) ==
  Obj(<<"type", "attrs", "content">>,
      <<Str("heading"), Obj(<<"level">>, <<Num(level)>>), Arr(content)>>)

Para(t) == Node("paragraph", <<TextNode(t)>>)

SeqsUpTo(S, n) == UNION {[1..m -> S] : m \in 0..n}

ListTypes == {"bulletList", "orderedList"}

SimpleItems == {Node("listItem", <<Para("A")>>), Node("listItem", <<TextNode("B")>>), Leaf("listItem")}

PlainItem == Node("listItem", <<Para("C")>>)

\* the lists of up to MaxItems flat items
FlatLists == {Node(lt, c) : lt \in ListTypes, c \in SeqsUpTo(SimpleItems, MaxItems)}

PlainItems(m) == [i \in 1..m |-> PlainItem]

RECURSIVE Nested(_)
\* the lists with d levels of lists nested in one of their items
Nested(d) ==
  IF d = 0
  THEN {Node(lt, PlainItems(m)) : lt \in ListTypes, m \in 0..MaxItems}
  ELSE LET inner == Nested(d - 1)
           rich == {Node("listItem", <<Para("A"), l>>) : l \in inner}
                     \cup {Node("listItem", <<Para("A"), l, Para("B")>>) : l \in inner}
           rows == UNION {{PlainItems(m) \o <<r>> : m \in 0..(MaxItems - 1)}
                            \cup {<<r, PlainItem>>} : r \in rich}
       IN {Node(lt, c) : lt \in ListTypes, c \in rows}

NestedLists == UNION {Nested(d) : d \in 1..(MaxNest - 1)}

AllLists == FlatLists \cup NestedLists

Headings ==
  {Heading(l, <<TextNode("H")>>) : l \in 0..MaxLevel}
    \cup {Node("heading", <<TextNode("H")>>), Leaf("heading")}

Blocks ==
  {Para("A"), Para("B"), Leaf("paragraph"), Leaf("horizontalRule"),
   Node("bulletList", <<PlainItem>>), Node("orderedList", <<PlainItem, PlainItem>>)}
    \cup Headings

\* node kinds the converter does not know, with content, text and attrs
Unknowns ==
  {Node("table", <<Para("A")>>),
   Node("blockquote", <<Node("bulletList", <<PlainItem>>)>>),
   Obj(<<"type", "text">>, <<Str("hardBreak"), Str("T")>>),
   Obj(<<"type", "attrs", "content">>,
       <<Str("codeBlock"), Obj(<<"level">>, <<Num(2)>>), Arr(<<TextNode("x")>>)>>),
   Obj(<<"content">>, <<Arr(<<Para("A")>>)>>),
   Leaf("image")}

\* trees outside the editor's schema
Irregular ==
  {Node("listItem", <<Para("A")>>),
   Node("listItem", <<Node("listItem", <<Para("A")>>)>>),
   Node("bulletList", <<Para("A"), PlainItem>>),
   Node("orderedList", <<Para("A"), PlainItem>>),
   Node("orderedList", <<Node("listItem",
       <<Node("paragraph", <<Node("bulletList", <<PlainItem>>)>>)>>)>>),
   Node("bulletList", <<Node("listItem", <<Heading(2, <<TextNode("H")>>)>>)>>),
   Node("bulletList", <<Node("listItem", <<Leaf("horizontalRule"), Para("A")>>)>>),
   Node("orderedList", <<Node("listItem", <<Node("table", <<Para("A")>>), Para("B")>>)>>),
   Node("paragraph", <<TextNode("A"), Node("mention", <<TextNode("m")>>), TextNode("B")>>)}

Docs ==
  {Node("doc", c) : c \in SeqsUpTo(Blocks, 1)}
    \cup {Node("doc", <<a, b>>) : a \in {Para("A"), Node("bulletList", <<PlainItem>>)},
                                 b \in Blocks \cup Unknowns}
    \cup {Node("doc", <<l>>) : l \in NestedLists \cup Irregular}
    \cup {Leaf("doc")}

Ctxs ==
  {Obj(<<"depth">>, <<Num(d)>>) : d \in 0..MaxCtxDepth}
    \cup {NestedListCtx(d, lt) : d \in 0..MaxCtxDepth, lt \in {"bullet", "ordered"}}
    \cup {ListItemCtx(d, lt, i) : d \in 0..MaxCtxDepth, lt \in {"bullet", "ordered"},
                                  i \in 0..1}

SmallNodes ==
  FlatLists \cup Blocks \cup Unknowns \cup Irregular \cup SimpleItems
    \cup {TextNode("A"), Leaf("text"), Null, Undefined}

\* the (node, ctx) pairs convertNodeToMarkdown is called with
NodeInputs ==
  {<<n, DefaultCtx>> : n \in NestedLists} \cup (SmallNodes \X Ctxs)

Attachment(text) == Obj(<<"content">>, <<Str(text)>>)

AttachmentTexts ==
  {"{\"type\":\"doc\",\"content\":[{\"type\":\"text\",\"text\":\"A\"}]}",
   "{\"type\":\"doc\",\"content\":[{\"type\":\"paragraph\",\"content\":[{\"type\":\"text\",\"text\":\"B\"}]}]}",
   "{ \"type\": \"bulletList\", \"content\": [ {\"type\":\"listItem\",\"content\":[{\"type\":\"text\",\"text\":\"C\"}]} ] }",
   "{\"type\":\"text\",\"text\":\"a\\nb\"}",
   "{\"type\":\"heading\",\"attrs\":{\"level\":2},\"content\":[{\"type\":\"text\",\"text\":\"Hi\"}]}",
   "{\"type\":\"video\",\"content\":[{\"type\":\"text\",\"text\":\"A\"}]}",
   "null",
   "[]",
   "",
   "{\"type\":\"doc\",\"content\":[",
   "{type:\"doc\"}",
   "not json"}

Legacy ==
  {Obj(<<"attachments">>, <<Arr([i \in 1..Len(c) |-> Attachment(c[i])])>>) :
     c \in SeqsUpTo(AttachmentTexts, MaxAttachments)}

Structures ==
  {Undefined, Null} \cup Docs \cup Legacy
    \cup {Obj(<<"type", "content", "attachments">>,
              <<Str("doc"), Arr(<<Para("A")>>), Arr(<<Attachment(t)>>)>>) :
            t \in {"null", "not json"}}
    \cup {Obj(<<"attachments">>, <<Arr(<<Obj(<<>>, <<>>)>>)>>),
          Obj(<<"attachments">>, <<Str("[]")>>),
          Obj(<<"attachments">>, <<Null>>),
          Obj(<<"type", "attachments">>, <<Str("paragraph"), Arr(<<Attachment("null")>>)>>),
          Obj(<<>>, <<>>),
          Para("A"),
          Str(""),
          Num(0)}

(***************************************************************************)
(* sanitizeErrorMessage: the regular expressions, matched character by     *)
(* character.                                                              *)
(***************************************************************************)
UpperChars ==
  {"A", "B", "C", "D", "E", "F", "G", "H", "I", "J", "K", "L", "M", "N", "O", "P", "Q",
   "R", "S", "T", "U", "V", "W", "X", "Y", "Z"}

LowerChars ==
  {"a", "b", "c", "d", "e", "f", "g", "h", "i", "j", "k", "l", "m", "n", "o", "p", "q",
   "r", "s", "t", "u", "v", "w", "x", "y", "z"}

DigitChars == {"0", "1", "2", "3", "4", "5", "6", "7", "8", "9"}

\* [A-Za-z0-9]
AlnumChars == UpperChars \cup LowerChars \cup DigitChars

\* [A-Za-z0-9\-._~+/]
TokenChars == AlnumChars \cup {"-", ".", "_", "~", "+", "/"}

\* \s
SpaceChars == {" ", "\n", "\t"}

\* \w, for \b
WordChars == AlnumChars \cup {"_"}

Alphabet == "abcdefghijklmnopqrstuvwxyz"

UpperAlphabet == "ABCDEFGHIJKLMNOPQRSTUVWXYZ"

\* one character, lower-cased (the i flag)
LowerChar(c) ==
  IF c \in UpperChars
  THEN LET i == CHOOSE j \in 1..26 : SubSeq(UpperAlphabet, j, j) = c IN SubSeq(Alphabet, i, i)
  ELSE c

RECURSIVE LowerCase(_)
LowerCase(s) == IF s = "" THEN "" ELSE LowerChar(Head(s)) \o LowerCase(Tail(s))

RECURSIVE RunLen(_, _)
\* the length of the longest prefix of s made of characters of class
RunLen(s, class) ==
  IF s # "" /\ Head(s) \in class THEN 1 + RunLen(Tail(s), class) ELSE 0

RECURSIVE RunUntilQuote(_)
\* [^"]* : the length of the longest prefix of s without a double quote
RunUntilQuote(s) == IF s # "" /\ Head(s) # "\"" THEN 1 + RunUntilQuote(Tail(s)) ELSE 0

\* /"<field>":\s*"[^"]+"/i at the start of s: the length of the match, or 0
FieldMatch(field, s) ==
  LET lit == "\"" \o field \o "\":"
      n0 == Len(lit)
      ws == RunLen(Drop(s, n0), SpaceChars)
      body == Drop(s, n0 + ws + 1)
      n == RunUntilQuote(body)
  IN IF /\ StartsWith(s, "\"")
        /\ Len(s) >= n0
        /\ LowerCase(SubSeq(s, 1, n0)) = lit
        /\ StartsWith(Drop(s, n0 + ws), "\"")
        /\ n >= 1
        /\ StartsWith(Drop(body, n), "\"")
     THEN n0 + ws + 1 + n + 1
     ELSE 0

\* the length of the match of pattern p at the start of s (0: no match), prev
\* being the character before s
MatchLen(p, s, prev) ==
  CASE p = 1 ->  \* /Bearer\s+[A-Za-z0-9\-._~+/]+=*/gi
         LET ws == RunLen(Drop(s, 6), SpaceChars)
             tc == RunLen(Drop(s, 6 + ws), TokenChars)
             eq == RunLen(Drop(s, 6 + ws + tc), {"="})
         IN IF /\ Len(s) >= 6 /\ Head(s) \in {"B", "b"}
               /\ LowerCase(SubSeq(s, 1, 6)) = "bearer" /\ ws >= 1 /\ tc >= 1
            THEN 6 + ws + tc + eq ELSE 0
    [] p = 2 ->  \* /[A-Za-z0-9]{20,}/g
         LET n == RunLen(s, AlnumChars) IN IF n >= 20 THEN n ELSE 0
    [] p = 3 -> FieldMatch("access_token", s)
    [] p = 4 -> FieldMatch("refresh_token", s)
    [] p = 5 -> FieldMatch("cognito_tokens", s)
    [] p = 6 -> FieldMatch("workos_tokens", s)
    [] p = 7 ->  \* /eyJ[A-Za-z0-9\-._~+/]*={0,2}/g
         IF StartsWith(s, "eyJ")
         THEN LET tc == RunLen(Drop(s, 3), TokenChars)
                  eq == RunLen(Drop(s, 3 + tc), {"="})
              IN 3 + tc + (IF eq > 2 THEN 2 ELSE eq)
         ELSE 0
    [] p = 8 ->  \* /\b[A-Za-z0-9]{32,}\b/g
         LET n == RunLen(s, AlnumChars)
         IN IF n >= 32 /\ prev \notin WordChars /\ ~(Len(s) > n /\ SubSeq(s, n + 1, n + 1) = "_")
            THEN n ELSE 0

\* the character before position i of s, prev being the one before s
Before(s, i, prev) == IF i = 1 THEN prev ELSE SubSeq(s, i - 1, i - 1)

\* the positions of s where pattern p matches
MatchStarts(p, s, prev) ==
  {i \in 1..Len(s) : MatchLen(p, Drop(s, i - 1), Before(s, i, prev)) > 0}

RECURSIVE ReplaceAll(_, _, _)
\* s.replace(pattern p, '[REDACTED]'): the leftmost match, then the rest
ReplaceAll(p, s, prev) ==
  LET starts == MatchStarts(p, s, prev)
      i == CHOOSE j \in starts : \A k \in starts : j <= k
      n == MatchLen(p, Drop(s, i - 1), Before(s, i, prev))
  IN IF starts = {} THEN s
     ELSE SubSeq(s, 1, i - 1) \o "[REDACTED]"
            \o ReplaceAll(p, Drop(s, i - 1 + n), SubSeq(s, i - 1 + n, i - 1 + n))

RECURSIVE ApplyPatterns(_, _)
\* sensitivePatterns.forEach, patterns p..7 in their order
ApplyPatterns(p, s) == IF p > 7 THEN s ELSE ApplyPatterns(p + 1, ReplaceAll(p, s, ""))

sanitizeErrorMessage(errorMessage) == ReplaceAll(8, ApplyPatterns(1, errorMessage), "")

(***************************************************************************)
(* getAccessToken.                                                         *)
(***************************************************************************)
\* os.homedir()
HomeDir == "/Users/me"

\* the values of process.env.GRANOLA_CONFIG_PATH: "" stands for unset
EnvValues == {"", "/etc/granola/supabase.json"}

\* the environment variable pushed to the end instead of the front
getGranolaPaths_last(env) ==
  <<"/granola-config/supabase.json", HomeDir \o "/granola-config/supabase.json">>
    \o (IF env # "" THEN <<env>> ELSE <<>>)
    \o <<HomeDir \o "/Library/Application Support/Granola/supabase.json">>

getGranolaPaths(env) ==
  (IF env # "" THEN <<env>> ELSE <<>>)
    \o <<"/granola-config/supabase.json", HomeDir \o "/granola-config/supabase.json">>
    \o <<HomeDir \o "/Library/Application Support/Granola/supabase.json">>

maxRetries == 3

delayMs == 100

\* the codes readFileWithRetry retries on
RetryableCodes == {"EBUSY", "EACCES", "EAGAIN", "EMFILE", "ENFILE"}

\* every code taken for a transient one
isRetryableError_any(errorCode) == errorCode = errorCode

isRetryableError(errorCode) == errorCode \in RetryableCodes

\* the codes fs.readFile fails with in the model
FsCodes == {"EBUSY", "EACCES", "ENOENT"}

FsText(code) ==
  CASE code = "EBUSY" -> "resource busy or locked"
    [] code = "EACCES" -> "permission denied"
    [] code = "EAGAIN" -> "resource temporarily unavailable"
    [] code = "EMFILE" -> "too many open files"
    [] code = "ENFILE" -> "file table overflow"
    [] OTHER -> "no such file or directory"

\* the message of the error fs.readFile rejects with
FsMessage(code, filePath) == code \o ": " \o FsText(code) \o ", open '" \o filePath \o "'"

\* the message of the SyntaxError of JSON.parse: it quotes the text
SyntaxMessage(text) ==
  IF SkipWs(text) = "" THEN "Unexpected end of JSON input"
  ELSE "Unexpected token '" \o Head(SkipWs(text)) \o "', \"" \o text
         \o "\" is not valid JSON"

\* the message of the TypeError of reading a property of null
NullMessage(name) == "Cannot read properties of null (reading '" \o name \o "')"

\* what the files hold
FileContents ==
  {"{\"workos_tokens\":\"{\\\"access_token\\\":\\\"eyJhbGciOi.tokW\\\"}\"}",
   "{\"workos_tokens\":null,\"cognito_tokens\":{\"access_token\":\"tokC\"}}",
   "{\"workos_tokens\":\"eyJhbGciOiJIUzI1NiJ9.e30\"}",
   "{\"workos_tokens\":{\"refresh_token\":\"r1\",\"access_token\":\"\"}}",
   "{\"user\":\"me\"}",
   "{\"access_token\": \"abcdefghijklmnopqrstuvwxyz\""}

Thrown(message) == [ok |-> FALSE, value |-> Undefined, message |-> message]

Returned(value) == [ok |-> TRUE, value |-> value, message |-> ""]

IsNullish(v) == v.k \in {"null", "undefined"}

\* a ?? b
Coalesce(a, b) == IF IsNullish(a) THEN b ELSE a

\* the catch of the inner try
ParseFailed(message) ==
  Thrown("Failed to parse local access token: " \o sanitizeErrorMessage(message))

\* const accessToken = tokens.access_token; ... return accessToken
FromTokens(tokens) ==
  IF IsNullish(tokens) THEN Thrown(NullMessage("access_token"))
  ELSE IF ~Truthy(Prop(tokens, "access_token"))
    THEN Thrown("Access token not found in configuration file")
  ELSE Returned(Prop(tokens, "access_token"))

\* tokens = JSON.parse(rawTokens), inner being what JSON.parse makes of text
FromString(text, inner) ==
  IF inner.ok THEN FromTokens(inner.val) ELSE ParseFailed(SyntaxMessage(text))

\* the inner try
FromRawTokens(rawTokens) ==
  IF rawTokens.k = "string" THEN FromString(rawTokens.s, JSONparse(rawTokens.s))
  ELSE IF rawTokens.k \in {"object", "array"} THEN FromTokens(rawTokens)
  ELSE ParseFailed("No valid token data found (expected workos_tokens or cognito_tokens)")

\* the try block after JSON.parse(fileContent), parsed being what it made
FromFile(content, parsed) ==
  IF ~parsed.ok THEN Thrown(SyntaxMessage(content))
  ELSE IF IsNullish(parsed.val) THEN Thrown(NullMessage("workos_tokens"))
  ELSE FromRawTokens(Coalesce(Prop(parsed.val, "workos_tokens"),
                              Prop(parsed.val, "cognito_tokens")))

\* the body of the try block once the file is read: the access token it
\* returns or the message of the error it throws
ReadToken(content) == FromFile(content, JSONparse(content))

\* ReadToken over the files of the model
Outcome == [content \in FileContents |-> ReadToken(content)]

\* the messages of the errors the loop over the paths catches
Messages ==
  {failed.message : failed \in {o \in {Outcome[content] : content \in FileContents} : ~o.ok}}
    \cup {FsMessage(code, getGranolaPaths(env)[i]) :
             code \in FsCodes, env \in EnvValues, i \in 1..3}
    \cup {FsMessage(code, getGranolaPaths(env)[4]) :
             code \in FsCodes, env \in EnvValues \ {""}}

\* the messages left as they are
Sanitized_raw == [message \in Messages |-> message]

\* sanitizeErrorMessage over the messages of the model
Sanitized == [message \in Messages |-> sanitizeErrorMessage(message)]

\* the message of the final error
FinalMessage(paths, last) ==
  LET sanitizedError ==
        IF Truthy(last) THEN Sanitized[last.s]
        ELSE "Configuration file not found or invalid format"
  IN "Failed to find Granola authentication token.\n"
       \o "Searched paths:\n" \o Join([i \in 1..Len(paths) |-> "  - " \o paths[i]], "\n")
       \o "\n\n"
       \o "For container usage, mount your host Granola config:\n"
       \o "docker run -v \"$HOME/Library/Application Support/Granola:/granola-config:ro\" your-image\n\n"
       \o "Or set custom path:\n"
       \o "export GRANOLA_CONFIG_PATH=\"/path/to/supabase.json\"\n\n"
       \o "Make sure Granola desktop app is running and you're logged in on the host machine.\n"
       \o "Last error: " \o sanitizedError

TokenInit ==
  /\ tpc = "idle"
  /\ envPath = ""
  /\ possiblePaths = <<>>
  /\ pidx = 0
  /\ attempt = 0
  /\ delays = <<>>
  /\ readError = Null
  /\ fileContent = ""
  /\ lastError = Null
  /\ failures = <<>>
  /\ accessToken = Undefined
  /\ finalError = ""

\* getAccessToken is called: the paths, and the first readFile is under way
StartGetAccessToken ==
  /\ tpc = "idle"
  /\ \E env \in EnvValues :
       /\ envPath' = env
       /\ possiblePaths' = getGranolaPaths(env)
  /\ pidx' = 1
  /\ attempt' = 0
  /\ delays' = <<>>
  /\ tpc' = "read"
  /\ UNCHANGED <<readError, fileContent, lastError, failures, accessToken, finalError>>
  /\ UNCHANGED rvars

\* an error that keeps the first failure instead of the last
CaughtError_first(message) == IF lastError = Null THEN Str(message) ELSE lastError

\* catch (error) { lastError = ... }
CaughtError(message) == Str(message)

\* the catch block of the loop over the paths: on to the next path, or the
\* final error after the last one
PathFailed(message) ==
  /\ lastError' = CaughtError(message)
  /\ failures' = Append(failures, message)
  /\ attempt' = 0
  /\ delays' = <<>>
  /\ IF pidx < Len(possiblePaths)
     THEN /\ pidx' = pidx + 1
          /\ tpc' = "read"
          /\ UNCHANGED finalError
     ELSE /\ tpc' = "failed"
          /\ finalError' = FinalMessage(possiblePaths, lastError')
          /\ UNCHANGED pidx
  /\ UNCHANGED <<envPath, possiblePaths, accessToken>>

\* the try block with the content read: return the token, or the catch block
TryBlock(content, outcome) ==
  /\ fileContent' = content
  /\ UNCHANGED readError
  /\ IF outcome.ok
     THEN /\ accessToken' = outcome.value
          /\ tpc' = "done"
          /\ UNCHANGED <<envPath, possiblePaths, pidx, attempt, delays, lastError, failures,
                         finalError>>
     ELSE PathFailed(outcome.message)

\* fs.readFile of the current path settles with the file's content
ReadSucceeds ==
  /\ tpc = "read"
  /\ \E content \in FileContents : TryBlock(content, Outcome[content])
  /\ UNCHANGED rvars

\* fs.readFile of the current path settles with an error
ReadFails ==
  /\ tpc = "read"
  /\ \E errorCode \in FsCodes :
       LET message == FsMessage(errorCode, possiblePaths[pidx])
       IN /\ readError' = Str(message)
          /\ IF ~isRetryableError(errorCode) \/ attempt >= maxRetries
             THEN PathFailed(message)
             ELSE /\ delays' = Append(delays, delayMs * 2^attempt)
                  /\ tpc' = "wait"
                  /\ UNCHANGED <<envPath, possiblePaths, pidx, attempt, lastError, failures,
                                 accessToken, finalError>>
  /\ UNCHANGED fileContent
  /\ UNCHANGED rvars

\* the backoff timer fires: the next attempt
Retry ==
  /\ tpc = "wait"
  /\ attempt' = attempt + 1
  /\ tpc' = "read"
  /\ UNCHANGED <<envPath, possiblePaths, pidx, delays, readError, fileContent, lastError,
                 failures, accessToken, finalError>>
  /\ UNCHANGED rvars

TokenNext == StartGetAccessToken \/ ReadSucceeds \/ ReadFails \/ Retry

(***************************************************************************)
(* The calls.  Each call has its own stack of convertNodeToMarkdown frames:*)
(* a frame holds its node, its ctx and the strings its children have       *)
(* returned so far.                                                        *)
(***************************************************************************)
CallIds == {1, 2}

\* attachments joined by a blank line without the spaces around it
Separator_plain == "\n\n"

\* the separator of the attachments' join
Separator == " \n\n "

Frame(node, ctx) == [node |-> node, ctx |-> ctx, outs |-> <<>>]

NoRet == [live |-> FALSE, node |-> Undefined, ctx |-> Undefined, outs |-> <<>>, out |-> ""]

Top(c) == stack[c][Len(stack[c])]

\* one current context kept for all calls: that of the first call while it runs
CtxOf_shared(c) == IF stack[1] # <<>> THEN stack[1][Len(stack[1])].ctx ELSE Top(c).ctx

\* the ctx parameter of the frame call c is running
CtxOf(c) == Top(c).ctx

RenderInit ==
  /\ status = [c \in CallIds |-> "idle"]
  /\ entry = [c \in CallIds |-> ""]
  /\ input = [c \in CallIds |-> Undefined]
  /\ inctx = [c \in CallIds |-> Undefined]
  /\ stack = [c \in CallIds |-> <<>>]
  /\ attIdx = [c \in CallIds |-> 0]
  /\ pieces = [c \in CallIds |-> <<>>]
  /\ result = [c \in CallIds |-> ""]
  /\ thrown = [c \in CallIds |-> ""]
  /\ ret = [c \in CallIds |-> NoRet]

Init == RenderInit /\ TokenInit

\* a caller invokes convertNodeToMarkdown(node, ctx)
CallNode(c, inputs) ==
  /\ UNCHANGED tvars
  /\ status[c] = "idle"
  /\ \E in \in inputs :
       /\ input' = [input EXCEPT ![c] = in[1]]
       /\ inctx' = [inctx EXCEPT ![c] = in[2]]
       /\ stack' = [stack EXCEPT ![c] = <<Frame(in[1], in[2])>>]
  /\ status' = [status EXCEPT ![c] = "running"]
  /\ entry' = [entry EXCEPT ![c] = "node"]
  /\ UNCHANGED <<attIdx, pieces, result, thrown, ret>>

\* a caller invokes convertDocumentToMarkdown(content)
CallDocument(c, structures) ==
  /\ UNCHANGED tvars
  /\ status[c] = "idle"
  /\ \E content \in structures :
       /\ input' = [input EXCEPT ![c] = content]
       /\ IF ~Truthy(content)
          THEN /\ status' = [status EXCEPT ![c] = "returned"]
               /\ entry' = [entry EXCEPT ![c] = "absent"]
               /\ UNCHANGED stack
          ELSE IF IsStr(Prop(content, "type"), "doc")
          THEN /\ status' = [status EXCEPT ![c] = "running"]
               /\ entry' = [entry EXCEPT ![c] = "doc"]
               /\ stack' = [stack EXCEPT ![c] = <<Frame(content, DefaultCtx)>>]
          ELSE IF Prop(content, "attachments").k = "array"
          THEN /\ status' = [status EXCEPT ![c] = "running"]
               /\ entry' = [entry EXCEPT ![c] = "attachments"]
               /\ UNCHANGED stack
          ELSE /\ status' = [status EXCEPT ![c] = "returned"]
               /\ entry' = [entry EXCEPT ![c] = "other"]
               /\ UNCHANGED stack
  /\ UNCHANGED <<inctx, attIdx, pieces, result, thrown, ret>>

\* a map callback that catches the parse error and skips the attachment
ParseAttachment_skip(c) ==
  /\ UNCHANGED tvars
  /\ status[c] = "running"
  /\ entry[c] = "attachments"
  /\ stack[c] = <<>>
  /\ attIdx[c] < Len(Prop(input[c], "attachments").items)
  /\ LET attachment == Prop(input[c], "attachments").items[attIdx[c] + 1]
         content == Prop(attachment, "content")
         parsedContent == JSONparse(IF content.k = "string" THEN content.s ELSE content.k)
     IN IF parsedContent.ok
        THEN /\ stack' = [stack EXCEPT ![c] = <<Frame(parsedContent.val, DefaultCtx)>>]
             /\ UNCHANGED <<attIdx, pieces>>
        ELSE /\ attIdx' = [attIdx EXCEPT ![c] = @ + 1]
             /\ pieces' = [pieces EXCEPT ![c] = Append(@, "")]
             /\ UNCHANGED stack
  /\ ret' = [ret EXCEPT ![c] = NoRet]
  /\ UNCHANGED <<status, thrown, entry, input, inctx, result>>

\* the map callback of the attachments branch: JSON.parse(attachment.content)
ParseAttachment(c) ==
  /\ UNCHANGED tvars
  /\ status[c] = "running"
  /\ entry[c] = "attachments"
  /\ stack[c] = <<>>
  /\ attIdx[c] < Len(Prop(input[c], "attachments").items)
  /\ LET attachment == Prop(input[c], "attachments").items[attIdx[c] + 1]
         content == Prop(attachment, "content")
         parsedContent == JSONparse(IF content.k = "string" THEN content.s ELSE content.k)
     IN IF parsedContent.ok
        THEN /\ stack' = [stack EXCEPT ![c] = <<Frame(parsedContent.val, DefaultCtx)>>]
             /\ UNCHANGED <<status, thrown>>
        ELSE /\ status' = [status EXCEPT ![c] = "threw"]
             /\ thrown' = [thrown EXCEPT ![c] = "SyntaxError"]
             /\ UNCHANGED stack
  /\ ret' = [ret EXCEPT ![c] = NoRet]
  /\ UNCHANGED <<entry, input, inctx, attIdx, pieces, result>>

\* the top frame calls convertNodeToMarkdown on its next child
Descend(c) ==
  /\ UNCHANGED tvars
  /\ status[c] = "running"
  /\ stack[c] # <<>>
  /\ Len(Top(c).outs) < Len(Children(Top(c).node))
  /\ LET i == Len(Top(c).outs)
     IN stack' = [stack EXCEPT ![c] =
                    Append(@, Frame(Children(Top(c).node)[i + 1],
                                    ChildCtx(Top(c).node, CtxOf(c), i)))]
  /\ ret' = [ret EXCEPT ![c] = NoRet]
  /\ UNCHANGED <<status, entry, input, inctx, attIdx, pieces, result, thrown>>

\* the top frame returns its string to its caller
Return(c) ==
  /\ UNCHANGED tvars
  /\ status[c] = "running"
  /\ stack[c] # <<>>
  /\ Len(Top(c).outs) = Len(Children(Top(c).node))
  /\ LET h == Len(stack[c])
         out == Finish(Top(c).node, CtxOf(c), Top(c).outs)
     IN /\ ret' = [ret EXCEPT ![c] = [live |-> TRUE, node |-> Top(c).node,
                                     ctx |-> CtxOf(c), outs |-> Top(c).outs, out |-> out]]
        /\ IF h > 1
           THEN /\ stack' = [stack EXCEPT ![c] =
                               [SubSeq(@, 1, h - 1) EXCEPT ![h - 1].outs = Append(@, out)]]
                /\ UNCHANGED <<status, result, pieces, attIdx>>
           ELSE /\ stack' = [stack EXCEPT ![c] = <<>>]
                /\ IF entry[c] = "attachments"
                   THEN /\ pieces' = [pieces EXCEPT ![c] = Append(@, out)]
                        /\ attIdx' = [attIdx EXCEPT ![c] = @ + 1]
                        /\ UNCHANGED <<status, result>>
                   ELSE /\ result' = [result EXCEPT ![c] = out]
                        /\ status' = [status EXCEPT ![c] = "returned"]
                        /\ UNCHANGED <<pieces, attIdx>>
  /\ UNCHANGED <<entry, input, inctx, thrown>>

\* .join(Separator) once the map is through
JoinAttachments(c) ==
  /\ UNCHANGED tvars
  /\ status[c] = "running"
  /\ entry[c] = "attachments"
  /\ stack[c] = <<>>
  /\ attIdx[c] = Len(Prop(input[c], "attachments").items)
  /\ result' = [result EXCEPT ![c] = Join(pieces[c], Separator)]
  /\ status' = [status EXCEPT ![c] = "returned"]
  /\ UNCHANGED <<entry, input, inctx, stack, attIdx, pieces, thrown, ret>>

Step(c) == ParseAttachment(c) \/ Descend(c) \/ Return(c) \/ JoinAttachments(c)

Next ==
  \/ CallNode(1, NodeInputs)
  \/ CallDocument(1, Structures)
  \/ ParseAttachment(1)
  \/ Descend(1)
  \/ Return(1)
  \/ JoinAttachments(1)

Spec == Init /\ [][Next]_vars

(***************************************************************************)
(* Render requests served side by side: the steps of the calls interleave  *)
(* in any order.                                                           *)
(***************************************************************************)
ConcLists ==
  {Node("bulletList",
        <<Node("listItem", <<Para("A"), Node("orderedList", PlainItems(2))>>), PlainItem>>),
   Node("orderedList",
        <<PlainItem, Node("listItem", <<Para("B"), Node("bulletList", PlainItems(1))>>)>>)}

ConcNodeInputs ==
  (ConcLists \X {DefaultCtx, ListItemCtx(1, "ordered", 1)})
    \cup {<<Para("A"), NestedListCtx(1, "bullet")>>, <<Para("A"), DefaultCtx>>}

ConcStructures ==
  {Node("doc", <<l, Para("B")>>) : l \in ConcLists}
    \cup {Obj(<<"attachments">>, <<Arr(<<Attachment(a), Attachment(b)>>)>>) :
            a \in {"{\"type\":\"doc\",\"content\":[{\"type\":\"text\",\"text\":\"A\"}]}"},
            b \in {"{\"type\":\"heading\",\"attrs\":{\"level\":2},\"content\":[{\"type\":\"text\",\"text\":\"Hi\"}]}",
                   "not json"}}
    \cup {Null}

NextConc ==
  \E c \in CallIds :
    \/ CallNode(c, ConcNodeInputs)
    \/ CallDocument(c, ConcStructures)
    \/ ParseAttachment(c)
    \/ Descend(c)
    \/ Return(c)
    \/ JoinAttachments(c)

SpecConc == Init /\ [][NextConc]_vars

SpecToken == Init /\ [][TokenNext]_vars

\* convertDocumentToMarkdown run on its own: the string it returns
convertDocumentToMarkdown(content) ==
  IF ~Truthy(content) THEN ""
  ELSE IF IsStr(Prop(content, "type"), "doc") THEN convertNodeToMarkdown(content, DefaultCtx)
  ELSE IF Prop(content, "attachments").k = "array"
    THEN LET atts == Prop(content, "attachments").items
         IN Join([k \in 1..Len(atts) |->
                    convertNodeToMarkdown(
                      JSONparse(IF Prop(atts[k], "content").k = "string"
                                THEN Prop(atts[k], "content").s
                                ELSE Prop(atts[k], "content").k).val,
                      DefaultCtx)],
                 Separator)
  ELSE ""

\* convertDocumentToMarkdown run on its own: whether it throws
convertDocumentThrows(content) ==
  /\ Truthy(content)
  /\ ~IsStr(Prop(content, "type"), "doc")
  /\ Prop(content, "attachments").k = "array"
  /\ \E k \in 1..Len(Prop(content, "attachments").items) :
       LET a == Prop(content, "attachments").items[k]
       IN ~JSONparse(IF Prop(a, "content").k = "string" THEN Prop(a, "content").s
                     ELSE Prop(a, "content").k).ok

(***************************************************************************)
(* Properties of convertNodeToMarkdown.                                    *)
(***************************************************************************)
IsType(node, t) == IsStr(NodeType(node), t)

Depth(ctx) == Prop(ctx, "depth").n

EndsWith(s, suf) == Len(s) >= Len(suf) /\ SubSeq(s, Len(s) - Len(suf) + 1, Len(s)) = suf

RECURSIVE LeadingSpaces(_)
LeadingSpaces(s) == IF s # "" /\ Head(s) = " " THEN 1 + LeadingSpaces(Tail(s)) ELSE 0

RECURSIVE Decimal(_)
Decimal(n) == IF n < 10 THEN Digits[n + 1] ELSE Decimal(n \div 10) \o Digits[(n % 10) + 1]

\* the depth of the context a call starts from
RootDepth(c) == IF entry[c] = "node" THEN Depth(inctx[c]) ELSE 0

\* the listItem frames among stk[1..j] whose direct child frame is a list
Nestings(stk, j) ==
  Cardinality({i \in 1..(j - 1) : IsType(stk[i].node, "listItem") /\ IsList(stk[i + 1].node)})

KnownTypes ==
  {"doc", "paragraph", "heading", "bulletList", "orderedList", "listItem", "text",
   "horizontalRule"}

Known(node) == NodeType(node).k = "string" /\ NodeType(node).s \in KnownTypes

RECURSIVE ListOfItems(_)
\* a list of listItems that hold text, paragraphs of text and lists of this kind
ListOfItems(node) ==
  /\ IsList(node)
  /\ \A i \in 1..Len(Children(node)) :
       LET item == Children(node)[i]
       IN /\ IsType(item, "listItem")
          /\ \A j \in 1..Len(Children(item)) :
               LET ch == Children(item)[j]
               IN \/ IsType(ch, "text")
                  \/ /\ IsType(ch, "paragraph")
                     /\ \A k \in 1..Len(Children(ch)) : IsType(Children(ch)[k], "text")
                  \/ ListOfItems(ch)

\* the positions of out where a blank line (two newlines in a row) starts
BlankLines(out) == {i \in 1..(Len(out) - 1) : SubSeq(out, i, i + 1) = "\n\n"}

\* C1: a top-level list (ctx.depth = 0) of list items with paragraphs, text
\* and directly nested lists renders every item with exactly one newline at
\* its end, also an item that ends in a nested list, so that the only blank
\* line of the output is the one the list appends at its end.
C1_OnlyBlankLineEndsTheList ==
  \A c \in CallIds :
    (ret[c].live /\ ListOfItems(ret[c].node) /\ Depth(ret[c].ctx) = 0) =>
      /\ \A j \in 1..Len(ret[c].outs) :
           EndsWith(ret[c].outs[j], "\n") /\ ~EndsWith(ret[c].outs[j], "\n\n")
      /\ BlankLines(ret[c].out) \subseteq {Len(ret[c].out) - 1}

\* C2: a listItem renders as indent + prefix + content + "\n" with indent two
\* spaces per level of ctx.depth; the depth of a listItem is the number of
\* listItems with a list as direct child that enclose it (counted from the
\* depth the call started at), so the items of a list directly in a listItem
\* are indented two spaces more than that item; no other node type emits
\* leading indentation of its own.
C2_IndentFollowsNesting ==
  \A c \in CallIds :
    /\ \A j \in 1..Len(stack[c]) :
         IsType(stack[c][j].node, "listItem") =>
           Depth(stack[c][j].ctx) = RootDepth(c) + Nestings(stack[c], j)
    /\ \A j \in 1..(Len(stack[c]) - 2) :
         (/\ IsType(stack[c][j].node, "listItem")
          /\ IsList(stack[c][j + 1].node)
          /\ IsType(stack[c][j + 2].node, "listItem")) =>
           Depth(stack[c][j + 2].ctx) = Depth(stack[c][j].ctx) + 1
    /\ (ret[c].live /\ IsType(ret[c].node, "listItem")) =>
         LET d == RootDepth(c) + Nestings(stack[c], Len(stack[c]))
             out == ret[c].out
         IN /\ LeadingSpaces(out) = 2 * d
            /\ \E pfx \in {"- "} \cup {Decimal(n) \o ". " : n \in 1..(MaxItems + 1)} :
                 out = Repeat(" ", 2 * d) \o pfx
                         \o Join(childContent(ret[c].node, ret[c].outs), "") \o "\n"
    /\ (ret[c].live /\ ~IsType(ret[c].node, "listItem") /\ ~IsType(ret[c].node, "text")
          /\ StartsWith(ret[c].out, " ")) =>
         \E j \in 1..Len(ret[c].outs) :
           /\ StartsWith(ret[c].outs[j], " ")
           /\ \A i \in 1..(j - 1) : ret[c].outs[i] = ""

\* a list item two lists deep has returned its line, indented by four spaces
C2_Witness ==
  /\ ret[1].live
  /\ IsType(ret[1].node, "listItem")
  /\ entry[1] = "doc"
  /\ Len(stack[1]) >= 3
  /\ Depth(ret[1].ctx) = 1
  /\ StartsWith(ret[1].out, "  - C\n")

\* C3: in an orderedList at any nesting depth the listItem at zero-based
\* position i is rendered with the prefix "{i+1}. ", each nested ordered list
\* restarting at 1; every item of a bulletList has the prefix "- ".
C3_NumberingFollowsPosition ==
  \A c \in CallIds :
    (ret[c].live /\ IsType(ret[c].node, "listItem") /\ stack[c] # <<>>) =>
      LET parent == Top(c)
          pos == Len(parent.outs)
          spaces == Repeat(" ", 2 * Depth(ret[c].ctx))
      IN /\ IsType(parent.node, "orderedList") =>
              StartsWith(ret[c].out, spaces \o Decimal(pos) \o ". ")
         /\ IsType(parent.node, "bulletList") =>
              StartsWith(ret[c].out, spaces \o "- ")

\* the third item of an ordered list nested in an item has returned "  3. C"
C3_Witness ==
  /\ ret[1].live
  /\ IsType(ret[1].node, "listItem")
  /\ Len(stack[1]) >= 3
  /\ IsType(Top(1).node, "orderedList")
  /\ Len(Top(1).outs) = 3
  /\ ret[1].out = "  3. C\n"

\* the contexts that carry a listType
HasListType(ctx) == Prop(ctx, "listType") \in {Str("bullet"), Str("ordered")}

\* C4: a paragraph appends exactly two newlines to its children's text if and
\* only if its ctx has no listType: as inline content of an item of a list it
\* returns the text alone, and as a sibling after a list at document level it
\* gets its two newlines again; doc[paragraph A, paragraph B] gives
\* "A\n\nB\n\n".
C4_ParagraphSpacing ==
  \A c \in CallIds :
    /\ (ret[c].live /\ IsType(ret[c].node, "paragraph")) =>
         LET text == Join(ret[c].outs, "")
         IN /\ (ret[c].out = text \o "\n\n") <=> ~HasListType(ret[c].ctx)
            /\ HasListType(ret[c].ctx) => ret[c].out = text
            /\ (/\ Len(stack[c]) >= 2
                /\ IsType(Top(c).node, "listItem")
                /\ IsList(stack[c][Len(stack[c]) - 1].node)) => ret[c].out = text
            /\ (/\ Len(stack[c]) = 1
                /\ entry[c] \in {"doc", "attachments"}
                /\ IsType(Top(c).node, "doc")
                /\ Len(Top(c).outs) >= 2
                /\ IsList(Children(Top(c).node)[Len(Top(c).outs) - 1])) =>
                 ret[c].out = text \o "\n\n"
    /\ (status[c] = "returned" /\ input[c] = Node("doc", <<Para("A"), Para("B")>>)) =>
         result[c] = "A\n\nB\n\n"

\* a paragraph after a list in a doc has returned with its two newlines, the
\* paragraph of the list's item before it having contributed none
C4_Witness ==
  /\ ret[1].live
  /\ IsType(ret[1].node, "paragraph")
  /\ entry[1] = "doc"
  /\ Len(stack[1]) = 1
  /\ Top(1).outs = <<"- C\n\n", "A\n\n">>

\* C5: a node whose type is none of the eight known ones returns "" under
\* every context whatever its content, attrs and text; its subtree is not
\* rendered at all and no error is raised.
C5_UnknownTypesAreDropped ==
  \A c \in CallIds :
    /\ (ret[c].live /\ ~Known(ret[c].node)) => (ret[c].out = "" /\ ret[c].outs = <<>>)
    /\ \A j \in 2..Len(stack[c]) : Known(stack[c][j - 1].node)
    /\ entry[c] \in {"node", "doc"} => status[c] # "threw"

\* an unknown node with content has returned "" inside an ordered list item
C5_Witness ==
  /\ ret[1].live
  /\ ~Known(ret[1].node)
  /\ Prop(ret[1].node, "content").items # <<>>
  /\ HasListType(ret[1].ctx)
  /\ ret[1].out = ""
  /\ stack[1] # <<>>

(***************************************************************************)
(* Properties of convertDocumentToMarkdown.                                *)
(***************************************************************************)
AttachmentsOf(c) == Prop(input[c], "attachments").items

\* what JSON.parse makes of an attachment's content
ParsedAttachment(a) ==
  JSONparse(IF Prop(a, "content").k = "string" THEN Prop(a, "content").s
            ELSE Prop(a, "content").k)

BadAttachments(c) == {k \in 1..Len(AttachmentsOf(c)) : ~ParsedAttachment(AttachmentsOf(c)[k]).ok}

\* C6: in the legacy form, content that is not valid JSON in any attachment,
\* also after attachments that rendered fine, fails the whole call with the
\* parse error: no string is returned, the bad attachment is not skipped and
\* nothing of the other attachments is output.  (A running call always has
\* its next step: the map goes on to the next attachment or a frame goes on.)
C6_BadAttachmentFailsTheCall ==
  \A c \in CallIds :
    entry[c] = "attachments" =>
      /\ BadAttachments(c) # {} =>
           /\ status[c] # "returned"
           /\ result[c] = ""
           /\ \A k \in BadAttachments(c) : attIdx[c] < k
      /\ status[c] = "threw" <=>
           /\ thrown[c] = "SyntaxError"
           /\ attIdx[c] + 1 \in BadAttachments(c)
           /\ stack[c] = <<>>
      /\ status[c] = "running" =>
           /\ attIdx[c] <= Len(AttachmentsOf(c))
           /\ stack[c] # <<>> => Len(Top(c).outs) <= Len(Children(Top(c).node))

\* the second attachment is malformed: the call has thrown after rendering the first
C6_Witness ==
  /\ entry[1] = "attachments"
  /\ status[1] = "threw"
  /\ thrown[1] = "SyntaxError"
  /\ attIdx[1] = 1
  /\ pieces[1] = <<"A">>
  /\ result[1] = ""

\* a fresh top-level context: depth 0, no listType, no itemIndex
FreshCtx == Obj(<<"depth">>, <<Num(0)>>)

\* the 1-based position in the joined string at which piece k starts
RECURSIVE OffsetOf(_, _)
OffsetOf(parts, k) == IF k = 1 THEN 1 ELSE OffsetOf(parts, k - 1) + Len(parts[k - 1]) + 4

\* C7: convertDocumentToMarkdown dispatches on the shape of its input: ""
\* for null/undefined; for type "doc" the rendering of the node under a fresh
\* top-level context, whatever its attachments field; otherwise for a sequence
\* of n attachments the n renderings, each under a fresh top-level context, in
\* order with n-1 separators " \n\n " between them ("" for none); "" for any
\* other structure.
C7_DispatchOnShape ==
  \A c \in CallIds :
    /\ (entry[c] \in {"doc", "attachments"} /\ stack[c] # <<>>) => stack[c][1].ctx = FreshCtx
    /\ (status[c] = "returned" /\ entry[c] # "node") =>
         IF ~Truthy(input[c]) THEN result[c] = "" /\ entry[c] = "absent"
         ELSE IF Prop(input[c], "type") = Str("doc")
           THEN result[c] = convertNodeToMarkdown(input[c], FreshCtx) /\ entry[c] = "doc"
         ELSE IF Prop(input[c], "attachments").k = "array"
           THEN LET n == Len(AttachmentsOf(c))
                    part == [k \in 1..n |->
                               convertNodeToMarkdown(ParsedAttachment(AttachmentsOf(c)[k]).val,
                                                     FreshCtx)]
                IN /\ entry[c] = "attachments"
                   /\ n = 0 => result[c] = ""
                   /\ n > 0 => Len(result[c]) = OffsetOf(part, n) + Len(part[n]) - 1
                   /\ \A k \in 1..n :
                        LET o == OffsetOf(part, k)
                        IN /\ SubSeq(result[c], o, o + Len(part[k]) - 1) = part[k]
                           /\ k < n => SubSeq(result[c], o + Len(part[k]), o + Len(part[k]) + 3)
                                         = " \n\n "
         ELSE result[c] = "" /\ entry[c] = "other"

\* two attachments, each a doc with one text node, have been joined
C7_Witness ==
  /\ status[1] = "returned"
  /\ entry[1] = "attachments"
  /\ Len(AttachmentsOf(1)) = 2
  /\ result[1] = "A \n\n A"

(***************************************************************************)
(* Calls side by side.                                                     *)
(***************************************************************************)
\* the node a call's bottom frame renders
RootNode(c) ==
  IF entry[c] = "attachments"
  THEN ParsedAttachment(AttachmentsOf(c)[attIdx[c] + 1]).val
  ELSE input[c]

\* C8: render calls on independent inputs interleaved in any order: each call
\* returns (or throws) exactly what it does when run alone, every frame works
\* on the call's own unchanged input tree, and the context of every frame is
\* the one derived from the call's own parent frame, never a value of the
\* other call.
C8_CallsDoNotInterfere ==
  \A c \in CallIds :
    /\ status[c] = "returned" =>
         IF entry[c] = "node"
         THEN result[c] = convertNodeToMarkdown(input[c], inctx[c])
         ELSE result[c] = convertDocumentToMarkdown(input[c])
                /\ ~convertDocumentThrows(input[c])
    /\ status[c] = "threw" => (entry[c] # "node" /\ convertDocumentThrows(input[c]))
    /\ stack[c] # <<>> =>
         /\ stack[c][1].node = RootNode(c)
         /\ stack[c][1].ctx = IF entry[c] = "node" THEN inctx[c] ELSE FreshCtx
    /\ \A j \in 1..Len(stack[c]) :
         LET f == stack[c][j]
         IN /\ \A k \in 1..Len(f.outs) :
                 f.outs[k] = convertNodeToMarkdown(Children(f.node)[k],
                                                   ChildCtx(f.node, f.ctx, k - 1))
            /\ j > 1 =>
                 LET parent == stack[c][j - 1]
                     i == Len(parent.outs)
                 IN /\ f.node = Children(parent.node)[i + 1]
                    /\ f.ctx = ChildCtx(parent.node, parent.ctx, i)

\* both calls are inside nested frames with different contexts, each having
\* had frames return already
C8_Witness ==
  /\ status[1] = "running" /\ status[2] = "running"
  /\ Len(stack[1]) >= 3 /\ Len(stack[2]) >= 3
  /\ Top(1).ctx # Top(2).ctx
  /\ Top(1).outs # <<>> /\ Top(2).outs # <<>>
  /\ input[1] # input[2]

(***************************************************************************)
(* Claims about getAccessToken.                                            *)
(***************************************************************************)
\* sub occurs in s
Contains(s, sub) ==
  \E i \in 1..(Len(s) - Len(sub) + 1) : SubSeq(s, i, i + Len(sub) - 1) = sub

\* the failure caught for the last path
LastFailure == failures[Len(failures)]

RECURSIVE PathLines(_)
\* the searched paths, one "  - " line each
PathLines(paths) ==
  IF paths = <<>> THEN ""
  ELSE "  - " \o Head(paths) \o "\n" \o PathLines(Tail(paths))

\* C9 as stated: when every path has failed, the final error reflects the
\* failure caught for each searched path, not only the one of the last path:
\* the sanitized message of every per-path failure occurs in it.
C9_EveryFailureIsReflected ==
  tpc = "failed" =>
    \A k \in 1..Len(failures) : Contains(finalError, sanitizeErrorMessage(failures[k]))

\* C9: when every path has failed, the final error lists every searched
\* path, and of the failures caught it carries only the one of the last path
\* tried, sanitized, as its "Last error": it is the same whatever the earlier
\* paths failed with.
C9_FinalErrorKeepsLastFailure ==
  tpc = "failed" =>
    /\ Len(failures) = Len(possiblePaths)
    /\ lastError = Str(LastFailure)
    /\ StartsWith(finalError,
                  "Failed to find Granola authentication token.\nSearched paths:\n"
                    \o PathLines(possiblePaths))
    /\ EndsWith(finalError, "\nLast error: " \o sanitizeErrorMessage(LastFailure))
    /\ finalError = FinalMessage(possiblePaths, Str(LastFailure))

\* all four paths have failed, the first one with another failure than the
\* last one, and the final error does not show the first failure
C9_Witness ==
  /\ tpc = "failed"
  /\ Len(failures) = 4
  /\ failures[1] = FsMessage("EACCES", envPath)
  /\ failures[2] = "Access token not found in configuration file"
  /\ LastFailure = FsMessage("ENOENT", possiblePaths[4])
  /\ ~Contains(finalError, "EACCES")

\* the candidate paths in their order, for the override the call has read
CandidatePaths ==
  (IF envPath # "" THEN <<envPath>> ELSE <<>>)
    \o <<"/granola-config/supabase.json",
         "/Users/me/granola-config/supabase.json",
         "/Users/me/Library/Application Support/Granola/supabase.json">>

\* C10: the paths are tried strictly in order, the GRANOLA_CONFIG_PATH
\* override first when set, then /granola-config/supabase.json, then
\* ~/granola-config/supabase.json, then the macOS Application Support path;
\* the call returns the non-empty access_token of the first path whose file
\* reads, parses and holds one (every path before it has failed), nothing is
\* read after a success, and a failure of any kind at a path that is not the
\* last moves on to the next path; the search fails only when all have failed.
C10_PathsInOrderFirstSuccessWins ==
  /\ [](tpc # "idle" =>
          /\ possiblePaths = CandidatePaths
          /\ pidx \in 1..Len(possiblePaths)
          /\ tpc # "failed" => Len(failures) = pidx - 1
          /\ tpc = "failed" => Len(failures) = Len(possiblePaths)
          /\ \A k \in 1..Len(failures) : failures[k] \in Messages
          /\ tpc = "done" =>
               /\ accessToken.k = "string" /\ accessToken.s # ""
               /\ accessToken = ReadToken(fileContent).value
               /\ Contains(fileContent, accessToken.s))
  /\ [][/\ tpc \notin {"done", "failed"}
        /\ pidx' \in {pidx, pidx + 1}
        /\ tpc = "idle" => pidx' = 1 /\ tpc' = "read"
        /\ (tpc = "read" /\ failures' # failures) =>
             /\ Len(failures') = Len(failures) + 1
             /\ IF pidx < Len(possiblePaths)
                THEN pidx' = pidx + 1 /\ tpc' = "read" /\ attempt' = 0
                ELSE tpc' = "failed"
        /\ (tpc # "idle" /\ failures' = failures) => pidx' = pidx
        /\ tpc' = "done" => tpc = "read"]_vars

\* with the override set, the token comes from the fourth path after a read
\* error, an invalid file and a file without access_token at the first three
C10_Witness ==
  /\ tpc = "done"
  /\ envPath # ""
  /\ pidx = 4
  /\ failures[1] = FsMessage("ENOENT", envPath)
  /\ failures[2] \in {Outcome[c].message : c \in {f \in FileContents : ~JSONparse(f).ok}}
  /\ failures[3] = "Access token not found in configuration file"
  /\ accessToken = Str("tokC")

\* the prefix of the error the inner catch throws
ParsePrefix == "Failed to parse local access token: "

\* the token envelopes of the files that are strings
EnvelopeStrings ==
  {raw.s : raw \in {r \in {Coalesce(Prop(JSONparse(content).val, "workos_tokens"),
                                    Prop(JSONparse(content).val, "cognito_tokens")) :
                             content \in {c \in FileContents : JSONparse(c).ok}} :
                     r.k = "string"}}

\* the messages of the errors caught by the inner catch, as they are caught
RawParseMessages ==
  {SyntaxMessage(text) : text \in {t \in EnvelopeStrings : ~JSONparse(t).ok}}
    \cup {"No valid token data found (expected workos_tokens or cognito_tokens)"}

\* the parse-failure messages the inner catch may throw
SanitizedParseMessages == {ParsePrefix \o sanitizeErrorMessage(raw) : raw \in RawParseMessages}

\* the caught messages that sanitizeErrorMessage changes
AlteredParseMessages == {raw \in RawParseMessages : sanitizeErrorMessage(raw) # raw}

\* C11: every failure message that reaches the caller has passed through
\* sanitizeErrorMessage: a parse failure of the token envelope carries the
\* sanitized message of the error caught, never the caught message itself, and
\* the final error ends with the sanitized message of the last error caught,
\* whichever path and failure kind it came from, and does not hold that
\* message as it was caught when sanitizing changes it; before the final error
\* nothing is surfaced.
C11_SurfacedMessagesAreSanitized ==
  /\ \A k \in 1..Len(failures) :
       /\ StartsWith(failures[k], ParsePrefix) => failures[k] \in SanitizedParseMessages
       /\ \A raw \in AlteredParseMessages : ~Contains(failures[k], raw)
  /\ tpc # "failed" => finalError = ""
  /\ tpc = "failed" =>
       /\ lastError.k = "string"
       /\ EndsWith(finalError, "\nLast error: " \o sanitizeErrorMessage(lastError.s))
       /\ sanitizeErrorMessage(lastError.s) # lastError.s =>
            ~Contains(finalError, lastError.s)
       /\ \A raw \in AlteredParseMessages : ~Contains(finalError, raw)

\* every path has failed, one with a token envelope whose parse error was
\* redacted, the last one with a file whose JSON error quotes an access_token
\* field, which the final error shows redacted
C11_Witness ==
  /\ tpc = "failed"
  /\ \E k \in 1..Len(failures) :
       failures[k] = ParsePrefix \o "Unexpected token 'e', \"[REDACTED].e30\" is not valid JSON"
  /\ lastError = Str(SyntaxMessage("{\"access_token\": \"abcdefghijklmnopqrstuvwxyz\""))
  /\ EndsWith(finalError, "Last error: Unexpected token '{', \"{[REDACTED]\" is not valid JSON")
  /\ ~Contains(finalError, "abcdefghijklmnopqrstuvwxyz")

(***************************************************************************)
(* Claims about readFileWithRetry.                                         *)
(***************************************************************************)
\* the codes the claim calls transient
TransientCodes == {"EBUSY", "EACCES", "EAGAIN", "EMFILE", "ENFILE"}

\* the message is the one of a read error with a transient code
IsTransient(message) == \E code \in TransientCodes : StartsWith(message, code \o ": ")

\* the messages of the read errors of a path
ReadErrorsAt(filePath) == {FsMessage(code, filePath) : code \in FsCodes}

\* the waits before the 2nd, 3rd and 4th attempt
Backoff == <<100, 200, 400>>

\* the step is one in which fs.readFile of the current path has failed
ReadErrorStep ==
  /\ tpc = "read"
  /\ \/ tpc' = "wait"
     \/ /\ failures' # failures
        /\ failures'[Len(failures')] \in ReadErrorsAt(possiblePaths[pidx])

\* C12: a read is retried only after a transient code (EBUSY, EACCES, EAGAIN,
\* EMFILE, ENFILE); any other code is thrown at that attempt with no wait and
\* no further read; a path is read at most 4 times, with waits of 100, 200
\* and 400 ms before the 2nd, 3rd and 4th attempt; a successful read at any
\* attempt hands the content on at once, and a 4th transient failure throws
\* the error of that attempt, so that the loop ends after at most 4 reads.
C12_RetryOnlyTransientWithBackoff ==
  /\ [](tpc \in {"read", "wait", "done"} =>
          /\ attempt \in 0..3
          /\ delays = SubSeq(Backoff, 1, Len(delays))
          /\ tpc # "wait" => Len(delays) = attempt
          /\ tpc = "wait" => Len(delays) = attempt + 1 /\ attempt < 3
          /\ (tpc = "wait" \/ attempt > 0) =>
               /\ readError.k = "string"
               /\ readError.s \in ReadErrorsAt(possiblePaths[pidx])
               /\ IsTransient(readError.s))
  /\ [][/\ ReadErrorStep =>
             /\ readError'.s \in ReadErrorsAt(possiblePaths[pidx])
             /\ tpc' = "wait" <=> (IsTransient(readError'.s) /\ attempt < 3)
             /\ tpc' = "wait" =>
                  /\ delays' = Append(delays, Backoff[attempt + 1])
                  /\ attempt' = attempt /\ pidx' = pidx
                  /\ failures' = failures /\ lastError' = lastError
             /\ tpc' # "wait" =>
                  /\ failures' = Append(failures, readError'.s)
                  /\ lastError' = readError'
                  /\ tpc' \in {"read", "failed"}
                  /\ attempt' = 0 /\ delays' = <<>>
             /\ fileContent' = fileContent /\ accessToken' = accessToken
        /\ (tpc = "read" /\ ~ReadErrorStep) =>
             /\ fileContent' \in FileContents
             /\ readError' = readError
             /\ tpc' # "wait"
             /\ tpc' = "done" =>
                  /\ attempt' = attempt /\ delays' = delays /\ pidx' = pidx
                  /\ accessToken' = ReadToken(fileContent').value
        /\ tpc = "wait" =>
             /\ tpc' = "read" /\ attempt' = attempt + 1
             /\ pidx' = pidx /\ delays' = delays /\ readError' = readError
             /\ failures' = failures]_vars

\* the first path was given up after a transient error (its 4th), the second
\* path was read at the 4th attempt, after waits of 100, 200 and 400 ms
C12_Witness ==
  /\ tpc = "done"
  /\ pidx = 2
  /\ failures = <<FsMessage("EACCES", possiblePaths[1])>>
  /\ attempt = 3
  /\ delays = <<100, 200, 400>>
  /\ readError = Str(FsMessage("EBUSY", possiblePaths[2]))

====
